---------------------------- MODULE Spec2Model ----------------------------
(***************************************************************************)
(* bf-crunch: a search for short Brainfuck programs printing a given text. *)
(*                                                                         *)
(* The module models                                                       *)
(*   - the output-sequence solver (port/src/solver.rs) as a stack machine  *)
(*     over the solver's mutable tape and zero cache, one frame per call   *)
(*     of Solver::exhaustive;                                              *)
(*   - the candidate generator, tape simulator, try_solve and the report   *)
(*     (port/src/cruncher.rs);                                             *)
(*   - a Brainfuck interpreter on an 8-bit wrap-around tape, which runs    *)
(*     the programs the cruncher renders.                                  *)
(***************************************************************************)
EXTENDS Integers, Sequences, FiniteSets, TLC

VARIABLES
    \* ---- struct Solver (solver.rs:7-16)
    goal,           \* Vec<u8>, 1-indexed here: goal[start] of the code is G(start)
    tape,           \* Vec<u8>, a function on 0 .. len-1
    min_cost,
    pointer,
    max_pointer,
    max_node_cost,
    unique_cells,
    zeros,          \* Vec<i32>, a sequence
    \* ---- the recursion of Solver::exhaustive
    budget,         \* the max_cost argument of Solver::solve
    stack,          \* the frames of exhaustive, innermost last
    ret,            \* the value the last returning call handed to its caller
    \* ---- struct Cruncher (cruncher.rs:22-49); goal, max_node_cost and
    \*      unique_cells are the fields the solver is constructed from
    limit,
    rolling_limit,
    print_full_program,
    min_tape,
    max_tape,
    options,        \* struct Options: min_init, max_init, and the s / c length ranges
    \* ---- the run of main / crunch / try_solve
    pc,             \* the position of the cruncher
    init_len,       \* the len argument of crunch
    todo,           \* the candidates crunch(len) has yet to visit, in order
    cand,           \* the candidate (s, c, k, j, h) being tried
    filled,         \* what fill_tape returned for cand
    solution1,      \* try_solve's solution1
    printed,        \* the last line report_solution printed
    calls,          \* history: the len arguments of main's calls of crunch, in order
    \* ---- the Brainfuck machine that runs a rendered program
    bf,
    \* ---- a helper function applied on its own: its name, arguments, the
    \*      locals of its loop and its result
    call

solverCfg  == <<goal, min_cost, pointer, max_pointer, max_node_cost, unique_cells, budget>>
solverVars == <<goal, tape, min_cost, pointer, max_pointer, max_node_cost,
                unique_cells, zeros, budget, stack, ret>>
cruncherCfg == <<rolling_limit, print_full_program, min_tape, max_tape, options>>
cruncherVars == <<limit, rolling_limit, print_full_program, min_tape, max_tape, options,
                  pc, init_len, todo, cand, filled, solution1, printed, calls>>
vars == <<solverVars, cruncherVars, bf, call>>

\* what a step of the solver leaves alone
SolverFrame == UNCHANGED <<solverCfg, cruncherVars, bf, call>>

\* no helper function is being applied
NoCall == [fn |-> "none", args |-> <<>>, loop |-> <<>>, done |-> FALSE, out |-> <<>>]

----------------------------------------------------------------------------
(* util.rs: byte arithmetic *)

Abs(x) == IF x < 0 THEN -x ELSE x
Min(a, b) == IF a < b THEN a ELSE b
Max(a, b) == IF a > b THEN a ELSE b

abs_diff(a, b) == Abs(a - b)
add_byte(value, delta) == (value + delta) % 256
negate_byte(value) == (256 - value) % 256

----------------------------------------------------------------------------
(* math.rs: lower_bound, the loop unrolled as a recursion on (start, end, mid) *)

RECURSIVE lower_bound_loop(_, _, _, _, _)
lower_bound_loop(slice, value, start, end, mid) ==
    IF mid = end THEN mid
    ELSE IF slice[mid + 1] < value
         THEN lower_bound_loop(slice, value, mid, end, (mid + end + 1) \div 2)
         ELSE lower_bound_loop(slice, value, start, mid, (start + mid) \div 2)

lower_bound(slice, value) ==
    IF Len(slice) = 0 THEN 0
    ELSE lower_bound_loop(slice, value, 0, Len(slice), Len(slice) \div 2)

----------------------------------------------------------------------------
(* node.rs, path.rs *)

Node(p, c) == [pointer |-> p, cost |-> c, rolling |-> FALSE]
NodeRolling(p, c) == [pointer |-> p, cost |-> c, rolling |-> TRUE]
NoNode == Node(0, 0)

RECURSIVE PathCost(_)
PathCost(nodes) ==
    IF nodes = <<>> THEN 0 ELSE Head(nodes).cost + PathCost(Tail(nodes))

\* Path::contains with Node's PartialEq: pointers are compared, nothing else
NodeEq(a, b) == a.pointer = b.pointer
PathContains(nodes, needle) == \E k \in 1..Len(nodes) : NodeEq(nodes[k], needle)

NoPath == [some |-> FALSE, nodes |-> <<>>]
SomePath(nodes) == [some |-> TRUE, nodes |-> nodes]

----------------------------------------------------------------------------
(* solver.rs: Solver::new, recompute_zeros *)

TapeLen(t) == Cardinality(DOMAIN t)
G(start) == goal[start + 1]

RECURSIVE zero_scan(_, _, _)
zero_scan(t, i, maxp) ==
    IF i > maxp THEN <<>>
    ELSE IF i < TapeLen(t) /\ t[i] = 0
         THEN <<i>> \o zero_scan(t, i + 1, maxp)
         ELSE zero_scan(t, i + 1, maxp)

recompute_zeros(t, maxp) == zero_scan(t, 0, maxp)

RECURSIVE count_repeats(_, _)
count_repeats(g, k) ==
    IF k >= Len(g) THEN 0
    ELSE (IF g[k] = g[k + 1] THEN 1 ELSE 0) + count_repeats(g, k + 1)

solver_min_cost(g) == (Len(g) - 1) * 2 - count_repeats(g, 1)

next_cost(start) ==
    IF start + 1 = Len(goal) THEN 0
    ELSE IF G(start) = G(start + 1) THEN 1 ELSE 2

----------------------------------------------------------------------------
(* solver.rs: frames of Solver::exhaustive *)

NewFrame(cost, start, ptr, max_cost, t, z) ==
    [cost |-> cost, start |-> start, pointer |-> ptr, max_cost |-> max_cost,
     min_path |-> NoPath, phase |-> "entry", i |-> 0,
     pj |-> 0, zero |-> 0, run_len |-> 0,
     wait |-> FALSE, node |-> NoNode, tval |-> 0, old_zeros |-> <<>>,
     block |-> <<>>, saved |-> <<>>,
     tape_in |-> t, zeros_in |-> z]     \* history: tape and zeros at entry

NoRet == [valid |-> FALSE, some |-> FALSE, nodes |-> <<>>,
          tape_in |-> <<>>, zeros_in |-> <<>>]

Top == stack[Len(stack)]
SetTop(f) == [stack EXCEPT ![Len(stack)] = f]
Running == stack # <<>>

i_max(f) == Min(f.max_cost - f.cost, max_node_cost)

\* the child budget without the next_cost credit
ChildBudget_NoCredit(f) == f.max_cost

\* the budget a child frame gets after one move (lines 96, 140, 184, ...)
ChildBudget(f) == f.max_cost + next_cost(f.start)

\* lines 88-90: the cache is recomputed before the goal byte is written
ZerosBeforeWrite(tval) ==
    IF tval = 0 THEN recompute_zeros(tape, max_pointer) ELSE zeros

stay_ncost(f) == abs_diff(G(f.start), tape[f.pointer]) + 1
step_ncost(f, target, i) == abs_diff(G(f.start), tape[target]) + i + 1
zip_ncost(f, target, i) == abs_diff(G(f.start), tape[target]) + i + 1 + (3 + f.pj)

Advance(f, phase, i) ==
    /\ stack' = SetTop([f EXCEPT !.phase = phase, !.i = i])
    /\ UNCHANGED <<tape, zeros, ret>>

\* return Some(path) / None: the frame is popped, the caller sees ret
ReturnWith(f, p) ==
    /\ stack' = SubSeq(stack, 1, Len(stack) - 1)
    /\ ret' = [valid |-> TRUE, some |-> p.some, nodes |-> p.nodes,
               tape_in |-> f.tape_in, zeros_in |-> f.zeros_in]
    /\ UNCHANGED <<tape, zeros>>

\* lines 85-97 (and the same block in every single-move class):
\* save the cell and the cache, recompute, write the goal byte, recurse
CallSingle(f, target, ncost) ==
    LET tval == tape[target]
        z1 == ZerosBeforeWrite(tval)
        t1 == [tape EXCEPT ![target] = G(f.start)]
        parent == [f EXCEPT !.wait = TRUE, !.node = Node(target, ncost),
                            !.tval = tval, !.old_zeros = zeros]
        child == NewFrame(f.cost + ncost, f.start + 1, target, ChildBudget(f), t1, z1)
    IN  /\ tape' = t1
        /\ zeros' = z1
        /\ stack' = Append(SetTop(parent), child)
        /\ UNCHANGED ret

\* a subpath that makes the total equal is accepted as well
AcceptSingle_OrEqual(f, sub) ==
    LET ncost == f.node.cost
        better == ~f.min_path.some
                  \/ PathCost(sub.nodes) + ncost <= PathCost(f.min_path.nodes)
        unique_ok == ~unique_cells \/ ~PathContains(sub.nodes, f.node)
    IN  IF sub.some /\ better /\ unique_ok
        THEN SomePath(<<f.node>> \o sub.nodes)
        ELSE f.min_path

\* lines 101-111: accept the subpath
AcceptSingle(f, sub) ==
    LET ncost == f.node.cost
        better == ~f.min_path.some
                  \/ PathCost(sub.nodes) + ncost < PathCost(f.min_path.nodes)
        unique_ok == ~unique_cells \/ ~PathContains(sub.nodes, f.node)
    IN  IF sub.some /\ better /\ unique_ok
        THEN SomePath(<<f.node>> \o sub.nodes)
        ELSE f.min_path

\* lines 98-99: restore
RestoreTapeSingle(f) == [tape EXCEPT ![f.node.pointer] = f.tval]
RestoreZerosSingle(f) == f.old_zeros

ResumeSingle(f) ==
    LET nf == [f EXCEPT !.wait = FALSE, !.node = NoNode, !.tval = 0,
                        !.old_zeros = <<>>,
                        !.min_path = AcceptSingle(f, ret),
                        !.phase = IF f.phase = "stay" THEN "left" ELSE f.phase,
                        !.i = IF f.phase = "stay" THEN 1 ELSE f.i + 1]
    IN  /\ tape' = RestoreTapeSingle(f)
        /\ zeros' = RestoreZerosSingle(f)
        /\ stack' = SetTop(nf)
        /\ ret' = NoRet

----------------------------------------------------------------------------
(* solver.rs:58-114: entry of exhaustive, and the stay class *)

\* lines 61-77: the base case and the i_max test
Enter ==
    /\ Running /\ Top.phase = "entry"
    /\ SolverFrame
    /\ LET f == Top IN
       IF f.start = Len(goal) THEN ReturnWith(f, SomePath(<<>>))
       ELSE IF i_max(f) <= 0 THEN ReturnWith(f, NoPath)
       ELSE Advance(f, "stay", 0)

\* lines 79-114
Stay ==
    /\ Running /\ Top.phase = "stay" /\ ~Top.wait
    /\ SolverFrame
    /\ LET f == Top IN
       IF f.pointer >= 0 /\ f.pointer < TapeLen(tape) /\ stay_ncost(f) <= i_max(f)
       THEN CallSingle(f, f.pointer, stay_ncost(f))
       ELSE Advance(f, "left", 1)

\* lines 116-158, one iteration of `for i in 1..i_max`
LeftInRange(f, i) == i <= f.pointer
MoveLeft ==
    /\ Running /\ Top.phase = "left" /\ ~Top.wait
    /\ SolverFrame
    /\ LET f == Top
           i == f.i
           target == f.pointer - i
       IN  IF f.pointer > 0 /\ i < i_max(f) /\ LeftInRange(f, i)
              /\ target < TapeLen(tape)
           THEN IF step_ncost(f, target, i) <= i_max(f)
                THEN CallSingle(f, target, step_ncost(f, target, i))
                ELSE Advance(f, "left", i + 1)
           ELSE Advance(f, "right", 1)

\* a right step that is not held inside the window
RightInRange_Unchecked(f, i) == TRUE

\* lines 160-202
RightInRange(f, i) == f.pointer + i <= max_pointer
MoveRight ==
    /\ Running /\ Top.phase = "right" /\ ~Top.wait
    /\ SolverFrame
    /\ LET f == Top
           i == f.i
           target == f.pointer + i
       IN  IF f.pointer < max_pointer /\ i < i_max(f) /\ RightInRange(f, i)
              /\ target < TapeLen(tape)
           THEN IF step_ncost(f, target, i) <= i_max(f)
                THEN CallSingle(f, target, step_ncost(f, target, i))
                ELSE Advance(f, "right", i + 1)
           ELSE Advance(f, "zipl", 0)

----------------------------------------------------------------------------
(* solver.rs:204-316: zip to the previous zero, [<] *)

\* lines 206-213: count the zero cells from pointer leftwards
RECURSIVE zip_left_scan(_, _)
zip_left_scan(f, pj) ==
    IF pj <= f.pointer
       /\ ~(f.pointer - pj >= TapeLen(tape) \/ tape[f.pointer - pj] # 0)
    THEN zip_left_scan(f, pj + 1)
    ELSE pj

\* lines 216-219: the landing cell is looked up in the zero cache
prev_zero_index(f, pj) == lower_bound(zeros, f.pointer - pj) - 1

ZipLeftScan ==
    /\ Running /\ Top.phase = "zipl" /\ ~Top.wait
    /\ SolverFrame
    /\ LET f == Top
           pj == zip_left_scan(f, 0)
       IN  IF f.pointer > 0 /\ pj <= f.pointer /\ prev_zero_index(f, pj) >= 0
           THEN stack' = SetTop([f EXCEPT !.phase = "zll", !.i = 1, !.pj = pj,
                                   !.zero = zeros[prev_zero_index(f, pj) + 1]])
                /\ UNCHANGED <<tape, zeros, ret>>
           ELSE Advance(f, "zipr", 0)

\* lines 221-267: from prev_zero going left
ZipLeftL ==
    /\ Running /\ Top.phase = "zll" /\ ~Top.wait
    /\ SolverFrame
    /\ LET f == Top
           i == f.i
           target == f.zero - i
       IN  IF i < i_max(f) /\ ~(i >= i_max(f) - 3) /\ ~(i > f.zero)
              /\ ~(target < 0) /\ target < TapeLen(tape)
           THEN IF zip_ncost(f, target, i) <= i_max(f)
                THEN CallSingle(f, target, zip_ncost(f, target, i))
                ELSE Advance(f, "zll", i + 1)
           ELSE Advance(f, "zlr", 1)

\* lines 269-316: from prev_zero going right, towards pointer
ZipLeftR ==
    /\ Running /\ Top.phase = "zlr" /\ ~Top.wait
    /\ SolverFrame
    /\ LET f == Top
           i == f.i
           span_limit == (f.pointer - f.zero - 3) \div 2
           target == f.zero + i
       IN  IF i < i_max(f) /\ ~(i >= i_max(f) - 3) /\ ~(i > span_limit)
              /\ ~(target > max_pointer) /\ target < TapeLen(tape)
           THEN IF zip_ncost(f, target, i) <= i_max(f)
                THEN CallSingle(f, target, zip_ncost(f, target, i))
                ELSE Advance(f, "zlr", i + 1)
           ELSE Advance(f, "rlx", 0)

----------------------------------------------------------------------------
(* solver.rs:318-399: roll to the previous zero, [.<] *)

\* an extension that is not held inside the window
LeftRunInWindow_Unchecked(f, pj) == TRUE

\* line 321: the cell right of the run is inside the window
LeftRunInWindow(f, pj) == f.pointer - pj < max_pointer

\* lines 319-327: the run is extended to the right of pointer
RECURSIVE roll_left_extend(_, _, _)
roll_left_extend(f, pj, run_len) ==
    IF pj < 1 /\ LeftRunInWindow(f, pj)
       /\ tape[f.pointer - pj + 1] # 0
       /\ run_len < Len(goal) - f.start
    THEN roll_left_extend(f, pj - 1, run_len + 1)
    ELSE <<pj, run_len>>

RollLeftExtend ==
    /\ Running /\ Top.phase = "rlx" /\ ~Top.wait
    /\ SolverFrame
    /\ LET f == Top
           ext == roll_left_extend(f, f.pj, f.pointer - f.pj - f.zero)
       IN  /\ stack' = SetTop([f EXCEPT !.phase = "rolll", !.i = 0,
                                 !.pj = ext[1], !.run_len = ext[2]])
           /\ UNCHANGED <<tape, zeros, ret>>

\* lines 336-367: the block of nodes and the credit dcost of its positions
RECURSIVE roll_left_nodes(_, _, _)
roll_left_nodes(f, i, acc) ==
    IF i >= f.run_len THEN acc
    ELSE LET cell == f.pointer - f.pj - i IN
         IF cell < 0 \/ cell >= TapeLen(tape) THEN [acc EXCEPT !.valid = FALSE]
         ELSE IF abs_diff(G(f.start + i), tape[cell]) > i_max(f)
              THEN [acc EXCEPT !.valid = FALSE]
              ELSE roll_left_nodes(f, i + 1,
                     [valid |-> TRUE,
                      nodes |-> Append(acc.nodes,
                                  NodeRolling(cell, abs_diff(G(f.start + i), tape[cell]))),
                      dcost |-> acc.dcost + next_cost(f.start + i)])

roll_ncost(f, target) == abs_diff(G(f.start), tape[target]) + Abs(f.pj) + 1

\* the block without the credit of its first position
roll_left_block_NoFirstCredit(f) ==
    roll_left_nodes(f, 1,
        [valid |-> TRUE,
         nodes |-> <<NodeRolling(f.pointer - f.pj,
                                 roll_ncost(f, f.pointer - f.pj) + 3)>>,
         dcost |-> 0])

roll_left_block(f) ==
    roll_left_nodes(f, 1,
        [valid |-> TRUE,
         nodes |-> <<NodeRolling(f.pointer - f.pj,
                                 roll_ncost(f, f.pointer - f.pj) + 3)>>,
         dcost |-> next_cost(f.start)])

\* lines 373-375 / 392-394: the goal bytes are written over the block, and the
\* saved bytes written back, node by node
RECURSIVE write_block(_, _, _, _)
write_block(t, nodes, start, k) ==
    IF k > Len(nodes) THEN t
    ELSE write_block([t EXCEPT ![nodes[k].pointer] = G(start + k - 1)],
                     nodes, start, k + 1)

RECURSIVE restore_block(_, _, _, _)
restore_block(t, nodes, saved, k) ==
    IF k > Len(nodes) THEN t
    ELSE restore_block([t EXCEPT ![nodes[k].pointer] = saved[k]], nodes, saved, k + 1)

\* lines 368-381: save, write, recurse from the zero cell behind the run
CallRoll(f, blk) ==
    LET nodes == blk.nodes
        saved == [k \in 1..Len(nodes) |-> tape[nodes[k].pointer]]
        t1 == write_block(tape, nodes, f.start, 1)
        parent == [f EXCEPT !.wait = TRUE, !.block = nodes, !.saved = saved]
        child == NewFrame(f.cost + PathCost(nodes), f.start + f.run_len, f.zero,
                          f.max_cost + blk.dcost, t1, zeros)
    IN  /\ tape' = t1
        /\ stack' = Append(SetTop(parent), child)
        /\ UNCHANGED <<zeros, ret>>

\* the run is tried again as it is
AdvanceRoll_NoShrink(f) ==
    /\ stack' = SetTop(f)
    /\ UNCHANGED <<tape, zeros, ret>>

\* lines 397-398
AdvanceRoll(f) ==
    /\ stack' = SetTop([f EXCEPT !.pj = f.pj + 1, !.run_len = f.run_len - 1])
    /\ UNCHANGED <<tape, zeros, ret>>

\* a roll block of which only the first node is joined to the rest of the path
AcceptRoll_FirstNodeOnly(f, sub) ==
    LET better == ~f.min_path.some
                  \/ PathCost(f.block) + PathCost(sub.nodes) < PathCost(f.min_path.nodes)
    IN  IF sub.some /\ better THEN SomePath(<<f.block[1]>> \o sub.nodes)
        ELSE f.min_path

\* lines 382-390: a roll block is accepted on cost alone
AcceptRoll(f, sub) ==
    LET better == ~f.min_path.some
                  \/ PathCost(f.block) + PathCost(sub.nodes) < PathCost(f.min_path.nodes)
    IN  IF sub.some /\ better THEN SomePath(f.block \o sub.nodes) ELSE f.min_path

\* a roll block whose saved bytes are not written back
RestoreTapeRoll_Skipped(f) == tape

RestoreTapeRoll(f) == restore_block(tape, f.block, f.saved, 1)

ResumeRoll(f) ==
    LET nf == [f EXCEPT !.wait = FALSE, !.block = <<>>, !.saved = <<>>,
                        !.min_path = AcceptRoll(f, ret),
                        !.pj = f.pj + 1, !.run_len = f.run_len - 1]
    IN  /\ tape' = RestoreTapeRoll(f)
        /\ stack' = SetTop(nf)
        /\ ret' = NoRet
        /\ UNCHANGED zeros

\* lines 328-399, one iteration of the while loop
RollLeft ==
    /\ Running /\ Top.phase = "rolll" /\ ~Top.wait
    /\ SolverFrame
    /\ LET f == Top
           target == f.pointer - f.pj
       IN  IF f.run_len >= 4 /\ f.run_len <= Len(goal) - f.start
              /\ target < TapeLen(tape)
           THEN IF roll_ncost(f, target) <= i_max(f)
                   /\ roll_left_block(f).valid
                   /\ Len(roll_left_block(f).nodes) = f.run_len
                THEN CallRoll(f, roll_left_block(f))
                ELSE AdvanceRoll(f)
           ELSE Advance(f, "zipr", 0)

----------------------------------------------------------------------------
(* solver.rs:404-598: zip and roll to the next zero, [>] and [.>].          *)
(* The frame's pj holds nj and its zero holds next_zero.                    *)

\* lines 406-413
RECURSIVE zip_right_scan(_, _)
zip_right_scan(f, nj) ==
    IF f.pointer + nj <= max_pointer
       /\ ~(f.pointer + nj >= TapeLen(tape) \/ tape[f.pointer + nj] # 0)
    THEN zip_right_scan(f, nj + 1)
    ELSE nj

\* line 416
next_zero_index(f, nj) == lower_bound(zeros, f.pointer + nj)

ZipRightScan ==
    /\ Running /\ Top.phase = "zipr" /\ ~Top.wait
    /\ SolverFrame
    /\ LET f == Top
           nj == zip_right_scan(f, 0)
       IN  IF f.pointer <= max_pointer /\ f.pointer + nj <= max_pointer
              /\ next_zero_index(f, nj) < Len(zeros)
           THEN stack' = SetTop([f EXCEPT !.phase = "zrr", !.i = 1, !.pj = nj,
                                   !.zero = zeros[next_zero_index(f, nj) + 1]])
                /\ UNCHANGED <<tape, zeros, ret>>
           ELSE Advance(f, "done", 0)

\* lines 420-463: from next_zero to the right
ZipRightR ==
    /\ Running /\ Top.phase = "zrr" /\ ~Top.wait
    /\ SolverFrame
    /\ LET f == Top
           i == f.i
           target == f.zero + i
       IN  IF i < i_max(f) /\ ~(i >= i_max(f) - 3) /\ ~(f.zero + i > max_pointer)
              /\ target < TapeLen(tape)
           THEN IF zip_ncost(f, target, i) <= i_max(f)
                THEN CallSingle(f, target, zip_ncost(f, target, i))
                ELSE Advance(f, "zrr", i + 1)
           ELSE Advance(f, "zrl", 1)

\* lines 465-512: from next_zero back towards pointer
ZipRightL ==
    /\ Running /\ Top.phase = "zrl" /\ ~Top.wait
    /\ SolverFrame
    /\ LET f == Top
           i == f.i
           span_limit == (f.zero - f.pointer - 3) \div 2
           target == f.zero - i
       IN  IF i < i_max(f) /\ ~(i >= i_max(f) - 3) /\ ~(i > span_limit)
              /\ ~(target < 0) /\ target < TapeLen(tape)
           THEN IF zip_ncost(f, target, i) <= i_max(f)
                THEN CallSingle(f, target, zip_ncost(f, target, i))
                ELSE Advance(f, "zrl", i + 1)
           ELSE Advance(f, "rrx", 0)

\* lines 515-523
RECURSIVE roll_right_extend(_, _, _)
roll_right_extend(f, nj, run_len) ==
    IF nj < 1 /\ f.pointer + nj > 0
       /\ tape[f.pointer + nj - 1] # 0
       /\ run_len < Len(goal) - f.start
    THEN roll_right_extend(f, nj - 1, run_len + 1)
    ELSE <<nj, run_len>>

RollRightExtend ==
    /\ Running /\ Top.phase = "rrx" /\ ~Top.wait
    /\ SolverFrame
    /\ LET f == Top
           ext == roll_right_extend(f, f.pj, f.zero - f.pointer - f.pj)
       IN  /\ stack' = SetTop([f EXCEPT !.phase = "rollr", !.i = 0,
                                 !.pj = ext[1], !.run_len = ext[2]])
           /\ UNCHANGED <<tape, zeros, ret>>

\* lines 532-563
RECURSIVE roll_right_nodes(_, _, _)
roll_right_nodes(f, i, acc) ==
    IF i >= f.run_len THEN acc
    ELSE LET cell == f.pointer + f.pj + i IN
         IF cell > max_pointer \/ cell >= TapeLen(tape) THEN [acc EXCEPT !.valid = FALSE]
         ELSE IF abs_diff(G(f.start + i), tape[cell]) > i_max(f)
              THEN [acc EXCEPT !.valid = FALSE]
              ELSE roll_right_nodes(f, i + 1,
                     [valid |-> TRUE,
                      nodes |-> Append(acc.nodes,
                                  NodeRolling(cell, abs_diff(G(f.start + i), tape[cell]))),
                      dcost |-> acc.dcost + next_cost(f.start + i)])

roll_right_block(f) ==
    roll_right_nodes(f, 1,
        [valid |-> TRUE,
         nodes |-> <<NodeRolling(f.pointer + f.pj,
                                 roll_ncost(f, f.pointer + f.pj) + 3)>>,
         dcost |-> next_cost(f.start)])

\* lines 524-595, one iteration of the while loop
RollRight ==
    /\ Running /\ Top.phase = "rollr" /\ ~Top.wait
    /\ SolverFrame
    /\ LET f == Top
           target == f.pointer + f.pj
       IN  IF f.run_len >= 4 /\ f.run_len <= Len(goal) - f.start
              /\ target < TapeLen(tape)
           THEN IF roll_ncost(f, target) <= i_max(f)
                   /\ roll_right_block(f).valid
                   /\ Len(roll_right_block(f).nodes) = f.run_len
                THEN CallRoll(f, roll_right_block(f))
                ELSE AdvanceRoll(f)
           ELSE Advance(f, "done", 0)

----------------------------------------------------------------------------
(* solver.rs:600: return min_path; and the return into a call site *)

Return ==
    /\ Running /\ Top.phase = "done" /\ ~Top.wait
    /\ SolverFrame
    /\ ReturnWith(Top, Top.min_path)

Resume ==
    /\ Running /\ Top.wait /\ ret.valid
    /\ SolverFrame
    /\ IF Top.phase \in {"rolll", "rollr"} THEN ResumeRoll(Top) ELSE ResumeSingle(Top)

SolverStep ==
    \/ Enter \/ Stay \/ MoveLeft \/ MoveRight
    \/ ZipLeftScan \/ ZipLeftL \/ ZipLeftR \/ RollLeftExtend \/ RollLeft
    \/ ZipRightScan \/ ZipRightR \/ ZipRightL \/ RollRightExtend \/ RollRight
    \/ Return \/ Resume

\* Solver::new (lines 19-52) followed by Solver::solve (lines 54-56)
SolverStart(g, t, ptr, maxp, mnc, uniq, max_cost) ==
    /\ goal = g
    /\ tape = t
    /\ min_cost = solver_min_cost(g)
    /\ pointer = ptr
    /\ max_pointer = maxp
    /\ max_node_cost = mnc
    /\ unique_cells = uniq
    /\ zeros = recompute_zeros(t, maxp)
    /\ budget = max_cost
    /\ stack = <<NewFrame(0, 0, ptr, max_cost - solver_min_cost(g), t,
                          recompute_zeros(t, maxp))>>
    /\ ret = NoRet

ToTape(s) == [i \in 0..(Len(s) - 1) |-> s[i + 1]]

SolverDone == stack = <<>> /\ ret.valid

----------------------------------------------------------------------------
(* The solver on its own: one call of Solver::solve on a tape, a start      *)
(* pointer and a goal drawn from bounded families.                          *)

MaxCell == 5          \* max_pointer of the scenarios
MaxGoalLen == 5       \* longest goal
MaxBudget == 13       \* largest max_cost handed to solve
NodeCostCap == 5      \* the --max-node-cost of the scenarios

GoalBases ==
    {<<1, 2, 1, 2, 1, 2, 1>>, <<1, 4, 1, 4, 1, 4, 1>>, <<2, 4, 1, 3, 4, 4, 4>>}
Goals == {SubSeq(b, 1, n) : b \in GoalBases, n \in 1..MaxGoalLen}

\* tapes of MaxCell + 3 cells and more: the cruncher's tapes are longer than
\* the window [0, max_pointer] the solver may use
Tapes ==
    {<<0, 2, 1, 2, 1, 0, 0, 0, 0>>, <<0, 2, 3, 2, 1, 0, 0, 0, 0>>,
     <<0, 4, 1, 1, 3, 0, 4, 0, 0>>}

Budgets == {MaxBudget - 5, MaxBudget}

CruncherIdle ==
    /\ limit = 0 /\ rolling_limit = FALSE /\ print_full_program = FALSE
    /\ min_tape = 0 /\ max_tape = 0 /\ options = <<>>
    /\ pc = "solver" /\ init_len = 0 /\ todo = <<>> /\ cand = <<>>
    /\ filled = <<>> /\ solution1 = NoPath /\ printed = <<>>
    /\ calls = <<>>
    /\ bf = <<>>

SolverInit ==
    /\ \E g \in Goals, t \in Tapes, ptr \in 0..MaxCell, uniq \in BOOLEAN,
          max_cost \in Budgets :
          SolverStart(g, ToTape(t), ptr, MaxCell, NodeCostCap, uniq, max_cost)
    /\ CruncherIdle
    /\ call = NoCall

SolverSpec == SolverInit /\ [][SolverStep]_vars

----------------------------------------------------------------------------
(* Properties of Solver::solve, checked under SolverSpec                    *)

AdjacentEqual(g) == Cardinality({k \in 1..(Len(g) - 1) : g[k] = g[k + 1]})
HasRoll(nodes) == \E k \in 1..Len(nodes) : nodes[k].rolling
Returned == SolverDone /\ ret.some

\* C3: every path solve returns costs at least 2*(|goal| - 1) - R, R the
\* number of adjacent equal goal bytes, roll blocks included.
C3_CostAdmissible ==
    Returned => PathCost(ret.nodes) >= 2 * (Len(goal) - 1) - AdjacentEqual(goal)

\* C4: with unique_cells on, no returned path has two nodes on one cell,
\* whichever move class produced them.
C4_UniqueCells ==
    (Returned /\ unique_cells) =>
        \A a, b \in 1..Len(ret.nodes) :
            a # b => ret.nodes[a].pointer # ret.nodes[b].pointer

\* C5: every path solve(max_cost) returns costs at most max_cost, also when
\* the path ends with a roll block.
C5_WithinBudget ==
    Returned => PathCost(ret.nodes) <= budget

\* the goal emitted with stay / left-step / right-step moves only: the set of
\* total costs of the sequences from cell p on tape t that keep every node
\* cost within max_node_cost and the total within room
simple_ncost(t, start, p, q) == abs_diff(G(start), t[q]) + Abs(q - p) + 1
RECURSIVE SimpleTotals(_, _, _, _)
SimpleTotals(t, start, p, room) ==
    IF start = Len(goal) THEN {0}
    ELSE UNION {
           {simple_ncost(t, start, p, q) + x :
              x \in SimpleTotals([t EXCEPT ![q] = G(start)], start + 1, q,
                                 room - simple_ncost(t, start, p, q))} :
           q \in {q \in 0..max_pointer :
                    simple_ncost(t, start, p, q) <= Min(max_node_cost, room)} }

\* C7: with unique_cells off, when a sequence of stay / step moves inside
\* [0, max_pointer] emits the goal within max_node_cost per node and max_cost
\* in total, solve returns a path, and it costs no more than that sequence.
C7_SimpleOptimal ==
    (SolverDone /\ ~unique_cells) =>
        \A c \in SimpleTotals(ret.tape_in, 0, pointer, budget) :
            ret.some /\ PathCost(ret.nodes) <= c
C7_Witness ==
    /\ SolverDone /\ ~unique_cells /\ ret.some /\ Len(goal) >= 3
    /\ PathCost(ret.nodes) \in SimpleTotals(ret.tape_in, 0, pointer, budget)
    /\ PathCost(ret.nodes) = budget

InWindow(p) == 0 <= p /\ p <= max_pointer
NodesInWindow(nodes) == \A k \in 1..Len(nodes) : InWindow(nodes[k].pointer)

\* C9: every call of exhaustive gets a pointer in [0, max_pointer], and every
\* node of every path (a call site's node or roll block, a frame's best path,
\* a returned path) lies in [0, max_pointer].
C9_PointerBounds ==
    /\ \A d \in 1..Len(stack) :
          /\ InWindow(stack[d].pointer)
          /\ NodesInWindow(stack[d].min_path.nodes)
          /\ NodesInWindow(stack[d].block)
          /\ stack[d].wait => InWindow(stack[d].node.pointer)
    /\ NodesInWindow(ret.nodes)
C9_Witness ==
    /\ ret.valid /\ ret.some /\ Len(ret.nodes) >= 1
    /\ Running /\ Top.wait /\ Top.phase \in {"zll", "zlr", "zrr", "zrl"}

\* C10: when a call of exhaustive returns, with a path or without, the tape
\* and the zero cache are what they were when it was entered.
C10_TapeRestored ==
    ret.valid => (tape = ret.tape_in /\ zeros = ret.zeros_in)
C10_Witness ==
    /\ ret.valid /\ Running /\ Top.wait /\ Top.phase \in {"rolll", "rollr"}
    /\ \E k \in 1..Len(Top.block) : Top.saved[k] # tape[Top.block[k].pointer]
    /\ Len(stack) >= 2

\* C11: at every entry to exhaustive, the top-level call and every recursive
\* call, zeros is the ascending list of the indices i in [0, max_pointer]
\* with tape[i] = 0.
C11_ZeroCacheConsistent ==
    (Running /\ Top.phase = "entry") =>
        zeros = recompute_zeros(tape, max_pointer)

\* C12: every node of every path solve returns costs at most max_node_cost,
\* the first node of a roll block included.
C12_NodeCostCapped ==
    Returned => \A k \in 1..Len(ret.nodes) : ret.nodes[k].cost <= max_node_cost

\* the nodes emit goal[start..] in order from tape t: node k stands on the
\* cell that receives goal byte start + k, and its cost covers the change of
\* that cell (a later node of a roll block carries exactly that change)
RECURSIVE EmitsGoal(_, _, _)
EmitsGoal(nodes, t, start) ==
    IF nodes = <<>> THEN start = Len(goal)
    ELSE /\ start < Len(goal)
         /\ LET n == nodes[1]
                delta == abs_diff(G(start), t[n.pointer])
            IN  /\ n.cost >= delta
                /\ ~n.rolling => n.cost >= delta + 1
                /\ EmitsGoal(Tail(nodes), [t EXCEPT ![n.pointer] = G(start)],
                             start + 1)

\* C17: every path solve returns has exactly |goal| nodes, the i-th being the
\* cell goal[i] is emitted from, whether it was assembled node by node or
\* holds roll blocks.
C17_OneNodePerByte ==
    Returned => (Len(ret.nodes) = Len(goal) /\ EmitsGoal(ret.nodes, tape, 0))
C17_Witness ==
    /\ Returned /\ HasRoll(ret.nodes) /\ Len(ret.nodes) >= 5
    /\ \E k \in 1..Len(ret.nodes) : ~ret.nodes[k].rolling

----------------------------------------------------------------------------
(* cruncher.rs:271-374: fill_tape, the closed-form simulation of the        *)
(* initialization segment                                                    *)

\* the table with the inverses of 3 and 5 exchanged
MODINV256_Exchanged ==
    <<0, 1, 0, 205, 0, 171, 0, 183, 0, 57, 0, 163, 0, 197, 0, 239, 0, 241, 0, 27,
      0, 61, 0, 167, 0, 41, 0, 19, 0, 53, 0, 223, 0, 225, 0, 139, 0, 173, 0, 151>>

MODINV256 ==
    <<0, 1, 0, 171, 0, 205, 0, 183, 0, 57, 0, 163, 0, 197, 0, 239, 0, 241, 0, 27,
      0, 61, 0, 167, 0, 41, 0, 19, 0, 53, 0, 223, 0, 225, 0, 139, 0, 173, 0, 151>>

as_u8(v) == v % 256

\* lines 300-306: shift is the number of trailing zero bits of j1, j1 # 0
RECURSIVE trailing_zeros(_)
trailing_zeros(x) == IF x % 2 = 0 THEN 1 + trailing_zeros(x \div 2) ELSE 0

RECURSIVE Pow2(_)
Pow2(n) == IF n = 0 THEN 1 ELSE 2 * Pow2(n - 1)

NoFill == [some |-> FALSE, pntr |-> 0, tape |-> <<>>]
SomeFill(pntr, t) == [some |-> TRUE, pntr |-> pntr, tape |-> t]

\* lines 285-294: the zeroed tape with s written from cell 2
seed_tape(s) ==
    [i \in 0..(Max(max_tape + Len(s), max_tape + 2) - 1) |->
        IF i >= 2 /\ i - 2 < Len(s) THEN as_u8(s[i - 1]) ELSE 0]

\* lines 337-357: tmp times the coefficients, added right and left of pntr
spread(t, pntr, c, j0, tmp) ==
    [i \in DOMAIN t |->
        IF i > pntr /\ i <= pntr + Len(c) THEN add_byte(t[i], tmp * c[i - pntr])
        ELSE IF i = pntr - 1 THEN add_byte(t[i], tmp * j0)
        ELSE t[i]]

\* the pair is returned wherever the loop has stopped
fill_result_Always(t, pntr, stop) == SomeFill(pntr, t)

\* lines 369-373: the pair is returned when the loop was left before stop
fill_result(t, pntr, stop) ==
    IF pntr < stop THEN SomeFill(pntr, t) ELSE NoFill

\* lines 323-373: the while loop; q holds c, k0, k1, j0, h, lsb, shift, m, stop
RECURSIVE fill_loop(_, _, _)
fill_loop(t, pntr, q) ==
    IF ~(pntr < q.stop) THEN fill_result(t, pntr, q.stop)
    ELSE IF pntr >= TapeLen(t) THEN NoFill
    ELSE IF t[pntr] = 0 THEN fill_result(t, pntr, q.stop)
    ELSE LET v == add_byte(t[pntr], q.k0)
             t1 == [t EXCEPT ![pntr] = v]
             tmp == (v \div Pow2(q.shift)) * q.m
         IN  IF v # 0 /\ v % q.lsb # 0 THEN NoFill
             ELSE IF v # 0 /\ (pntr + Len(q.c) >= TapeLen(t) \/ pntr - 1 < 0)
                  THEN NoFill
             ELSE IF pntr + 1 >= TapeLen(t) THEN NoFill
             ELSE LET t2 == IF v # 0 THEN spread(t1, pntr, q.c, q.j0, tmp) ELSE t1
                      t3 == [t2 EXCEPT ![pntr] = as_u8(q.h)]
                      t4 == [t3 EXCEPT ![pntr + 1] = add_byte(t3[pntr + 1], q.k1)]
                  IN  fill_loop(t4, pntr + 1, q)

fill_tape(s, c, k0, k1, j0, j1, h) ==
    IF Len(s) + 1 >= Max(max_tape + Len(s), max_tape + 2) /\ Len(s) > 0 THEN NoFill
    ELSE IF j1 = 0 THEN NoFill
    ELSE LET shift == trailing_zeros(j1)
             inv_idx == j1 \div Pow2(shift)
         IN  IF inv_idx < 0 \/ inv_idx >= Len(MODINV256) THEN NoFill
             ELSE IF MODINV256[inv_idx + 1] = 0 THEN NoFill
             ELSE IF max_tape - Len(c) <= 2 THEN NoFill
             ELSE fill_loop(seed_tape(s), 2,
                            [c |-> c, k0 |-> k0, k1 |-> k1, j0 |-> j0, h |-> h,
                             lsb |-> Pow2(shift), shift |-> shift,
                             m |-> MODINV256[inv_idx + 1],
                             stop |-> max_tape - Len(c)])

----------------------------------------------------------------------------
(* cruncher.rs:378-468: the rendering of a candidate and of a solver path;  *)
(* a program is a sequence of one-character strings                          *)

Rep(ch, count) == [i \in 1..count |-> ch]
append_repeated(sb, ch, count) == sb \o Rep(ch, count)
sign_char(v) == IF v < 0 THEN "-" ELSE "+"

\* lines 380-390: each s term is put in front of what is there
RECURSIVE s_segment(_, _, _)
s_segment(s, idx, sb) ==
    IF idx > Len(s) THEN sb
    ELSE s_segment(s, idx + 1,
                   Rep(sign_char(s[idx]), Abs(s[idx]))
                   \o <<IF idx = 1 THEN "[" ELSE "<">> \o sb)

\* lines 397-400
RECURSIVE c_segment(_, _, _)
c_segment(c, idx, sb) ==
    IF idx > Len(c) THEN sb
    ELSE c_segment(c, idx + 1,
                   append_repeated(Append(sb, ">"), sign_char(c[idx]), Abs(c[idx])))

to_bf_string(s, c, k, j, h) ==
    LET b1 == append_repeated(s_segment(s, 1, <<>>), sign_char(k[1]), Abs(k[1]))
        b2 == append_repeated(b1 \o <<"[", "<">>, sign_char(j[1]), Abs(j[1]))
        b3 == append_repeated(Append(b2, ">"), "-", Abs(j[2]))
        b4 == append_repeated(c_segment(c, 1, b3), "<", Len(c))
        b5 == append_repeated(Append(b4, "]"), sign_char(h), Abs(h))
    IN  Append(append_repeated(Append(b5, ">"), sign_char(k[2]), Abs(k[2])), "]")

\* lines 412-461: the tail that walks the path and emits the goal
RECURSIVE output_steps(_, _, _, _, _, _)
output_steps(nodes, g, k, ptr, state, sequence) ==
    IF k > Len(nodes) THEN sequence
    ELSE LET target == nodes[k].pointer
             moves == IF target > ptr THEN Rep(">", target - ptr)
                      ELSE IF target < ptr THEN Rep("<", ptr - target)
                      ELSE <<>>
             desired == IF k <= Len(g) THEN g[k] ELSE 0
             current == IF target \in DOMAIN state THEN state[target] ELSE 0
             increase == (desired - current) % 256
             decrease == (current - desired) % 256
             adjust == IF desired = current THEN <<>>
                       ELSE IF increase <= decrease THEN Rep("+", increase)
                       ELSE Rep("-", decrease)
             state1 == IF desired = current THEN state
                       ELSE [i \in DOMAIN state \cup {target} |->
                               IF i = target THEN desired ELSE state[i]]
         IN  output_steps(nodes, g, k + 1, target, state1,
                          sequence \o moves \o adjust \o <<".">>)

build_output_sequence(nodes, g, t, start_pointer) ==
    output_steps(nodes, g, 1, start_pointer, t, <<>>)

----------------------------------------------------------------------------
(* cruncher.rs:471-540: the generators of the s, c, k and j lists, in the   *)
(* order the code produces them                                             *)

RECURSIVE Concat(_)
Concat(ss) == IF ss = <<>> THEN <<>> ELSE Head(ss) \o Concat(Tail(ss))

RECURSIVE s_dfs(_, _, _), s_dfs_loop(_, _, _, _)
s_dfs(len, first, current) ==
    IF len < 1 THEN <<current>> ELSE s_dfs_loop(len, first, current, -len)
s_dfs_loop(len, first, current, i) ==
    IF i > len THEN <<>>
    ELSE (IF (first /\ i = 0) \/ Abs(i) = len - 1 THEN <<>>
          ELSE s_dfs(len - Abs(i) - 1, FALSE, Append(current, i)))
         \o s_dfs_loop(len, first, current, i + 1)
s_list_gen(len) == s_dfs(len, TRUE, <<>>)

RECURSIVE c_dfs(_, _, _), c_dfs_loop(_, _, _, _)
c_dfs(len, first, current) ==
    IF len < 1 THEN <<current>>
    ELSE c_dfs_loop(len, first, current, (IF first THEN 1 ELSE 2) - len)
\* every element charged 1, the first and the later ones alike
c_dfs_loop_FlatCharge(len, first, current, i) ==
    IF i > len - 1 THEN <<>>
    ELSE (IF i = 0 /\ len < 3 /\ ~first THEN <<>>
          ELSE c_dfs(len - Abs(i) - 1, FALSE, Append(current, i)))
         \o c_dfs_loop(len, first, current, i + 1)

c_dfs_loop(len, first, current, i) ==
    LET j == IF first THEN 1 ELSE 2 IN
    IF i > len - j THEN <<>>
    ELSE (IF i = 0 /\ len < 3 /\ ~first THEN <<>>
          ELSE c_dfs(len - Abs(i) - j, FALSE, Append(current, i)))
         \o c_dfs_loop(len, first, current, i + 1)
c_list_gen(len) == c_dfs(len, TRUE, <<>>)

k_list_gen(len) ==
    IF len = 0 THEN << <<0, 0>> >>
    ELSE << <<-len, 0>> >>
         \o Concat([n \in 1..(2 * len - 1) |->
                      LET i == n - len IN
                      << <<i, len - Abs(i)>>, <<i, -(len - Abs(i))>> >>])
         \o << <<len, 0>> >>

j_list_gen(len) == [i \in 1..(len - 1) |-> <<len - i, i>>]

----------------------------------------------------------------------------
(* cruncher.rs:91-155: the candidates of crunch(len), in the order of the   *)
(* nested loops; every one of them is handed to fill_tape                    *)

Candidate(s, c, k, j, h) == [s |-> s, c |-> c, k |-> k, j |-> j, h |-> h]

\* lines 124-129
h_candidates(hlen) == IF hlen > 0 THEN <<-hlen, hlen>> ELSE <<hlen>>

\* lines 123-147
crunch_j(len, slen, s, clen, c, klen, k, jlen, j) ==
    LET hs == h_candidates(len - slen - clen - klen - jlen - 7)
    IN  [n \in 1..Len(hs) |-> Candidate(s, c, k, j, hs[n])]

\* lines 116-148
crunch_k(len, slen, s, clen, c, klen, k) ==
    LET j_remaining == len - slen - clen - klen - 7
    IN  IF j_remaining < 2 THEN <<>>
        ELSE Concat([a \in 1..(j_remaining - 1) |->
               LET js == j_list_gen(a + 1)
               IN  Concat([b \in 1..Len(js) |->
                     crunch_j(len, slen, s, clen, c, klen, k, a + 1, js[b])])])

\* lines 109-149
crunch_c(len, slen, s, clen, c) ==
    LET remaining == len - slen - clen - 9
    IN  IF remaining < 0 THEN <<>>
        ELSE Concat([a \in 1..(remaining + 1) |->
               LET ks == k_list_gen(a - 1)
               IN  Concat([b \in 1..Len(ks) |->
                     crunch_k(len, slen, s, clen, c, a - 1, ks[b])])])

\* lines 101-151
crunch_s(len, slen, s) ==
    LET c_min == Max(options.min_clen, 3)
        c_max == Min(options.max_clen, len - slen - 9)
    IN  IF c_min > c_max THEN <<>>
        ELSE Concat([a \in 1..(c_max - c_min + 1) |->
               LET cs == c_list_gen(c_min + a - 1)
               IN  Concat([b \in 1..Len(cs) |->
                     crunch_c(len, slen, s, c_min + a - 1, cs[b])])])

\* lines 94-154
crunch_candidates(len) ==
    LET s_min == Max(options.min_slen, 1)
        s_max == Min(options.max_slen, len - 12)
    IN  IF s_min > s_max THEN <<>>
        ELSE Concat([a \in 1..(s_max - s_min + 1) |->
               LET ss == s_list_gen(s_min + a - 1)
               IN  Concat([b \in 1..Len(ss) |->
                     crunch_s(len, s_min + a - 1, ss[b])])])

----------------------------------------------------------------------------
(* The Brainfuck machine: 8-bit cells that wrap, a data pointer, the        *)
(* program as a sequence of commands.  It runs the programs to_bf_string    *)
(* and build_output_sequence render.                                        *)

MaxSteps == 1800      \* a run is cut off after this many commands

\* the position of the bracket matching the one at position i
RECURSIVE match_forward(_, _, _)
match_forward(prog, i, depth) ==
    IF i > Len(prog) THEN 0
    ELSE IF prog[i] = "[" THEN match_forward(prog, i + 1, depth + 1)
    ELSE IF prog[i] = "]"
         THEN IF depth = 1 THEN i ELSE match_forward(prog, i + 1, depth - 1)
    ELSE match_forward(prog, i + 1, depth)

RECURSIVE match_backward(_, _, _)
match_backward(prog, i, depth) ==
    IF i < 1 THEN 0
    ELSE IF prog[i] = "]" THEN match_backward(prog, i - 1, depth + 1)
    ELSE IF prog[i] = "["
         THEN IF depth = 1 THEN i ELSE match_backward(prog, i - 1, depth - 1)
    ELSE match_backward(prog, i - 1, depth)

BFIdle == [prog |-> <<>>, ip |-> 0, dp |-> 0, cells |-> <<>>, out |-> <<>>,
           steps |-> 0, status |-> "idle"]

\* a fresh machine: n zero cells, the data pointer on cell dp
BFLoad(prog, n, dp) ==
    [prog |-> prog, ip |-> 1, dp |-> dp, cells |-> [i \in 0..(n - 1) |-> 0],
     out |-> <<>>, steps |-> 0,
     status |-> IF prog = <<>> THEN "halt" ELSE "run"]

\* one command
BFExec(m) ==
    LET cmd == m.prog[m.ip]
        cell == m.cells[m.dp]
        next == [m EXCEPT !.ip = m.ip + 1, !.steps = m.steps + 1]
        moved(d) == IF d \in DOMAIN m.cells THEN [next EXCEPT !.dp = d]
                    ELSE [next EXCEPT !.status = "fault"]
        after ==
            CASE cmd = "+" -> [next EXCEPT !.cells[m.dp] = (cell + 1) % 256]
              [] cmd = "-" -> [next EXCEPT !.cells[m.dp] = (cell - 1) % 256]
              [] cmd = ">" -> moved(m.dp + 1)
              [] cmd = "<" -> moved(m.dp - 1)
              [] cmd = "." -> [next EXCEPT !.out = Append(m.out, cell)]
              [] cmd = "[" -> IF cell = 0
                              THEN [next EXCEPT !.ip = match_forward(m.prog, m.ip, 0) + 1]
                              ELSE next
              [] cmd = "]" -> IF cell # 0
                              THEN [next EXCEPT !.ip = match_backward(m.prog, m.ip, 0) + 1]
                              ELSE next
    IN  IF after.status = "fault" THEN after
        ELSE IF after.ip > Len(m.prog) THEN [after EXCEPT !.status = "halt"]
        ELSE IF after.steps >= MaxSteps THEN [after EXCEPT !.status = "cut"]
        ELSE after

\* the machine executes one command of the program it was given
BFStep ==
    /\ bf.status = "run"
    /\ bf' = BFExec(bf)
    /\ UNCHANGED <<solverVars, cruncherVars, call>>

----------------------------------------------------------------------------
(* fill_tape against the machine: a candidate is simulated by fill_tape,    *)
(* and its rendering is executed from a zeroed tape of the same length with *)
(* the data pointer on cell 1 + |s|                                         *)

SMax == 2             \* |s terms| of the candidates tried
FillMaxTape == 8      \* --max-tape of the fill_tape scenarios

FillS == {<<v>> : v \in (-SMax..SMax) \ {0}} \cup {<<1, 1>>}
FillC == {<<1>>, <<-1>>, <<0, 1>>}
FillK == {<<0, 0>>, <<-1, 0>>, <<0, 1>>}
FillJ == {<<1, 1>>, <<1, 2>>, <<2, 3>>, <<1, 6>>, <<1, 0>>, <<1, 41>>, <<1, 82>>}
FillH == {-1, 0, 1}

SolverIdle ==
    /\ goal = <<>> /\ tape = <<>> /\ min_cost = 0 /\ pointer = 0
    /\ max_pointer = 0 /\ max_node_cost = 0 /\ unique_cells = FALSE
    /\ zeros = <<>> /\ budget = 0 /\ stack = <<>> /\ ret = NoRet

FillInit ==
    /\ SolverIdle
    /\ limit = 0 /\ rolling_limit = FALSE /\ print_full_program = FALSE
    /\ min_tape = 1 /\ max_tape = FillMaxTape /\ options = <<>>
    /\ pc = "fill" /\ init_len = 0 /\ todo = <<>>
    /\ \E s \in FillS, c \in FillC, k \in FillK, j \in FillJ, h \in FillH :
          cand = Candidate(s, c, k, j, h)
    /\ filled = NoFill /\ solution1 = NoPath /\ printed = <<>>
    /\ calls = <<>>
    /\ bf = BFIdle
    /\ call = NoCall

\* crunch, lines 132-134: the call of fill_tape; the rendering of the
\* candidate is then given to the machine
FillTape ==
    /\ pc = "fill"
    /\ LET r == fill_tape(cand.s, cand.c, cand.k[1], cand.k[2],
                          cand.j[1], cand.j[2], cand.h)
       IN  /\ filled' = r
           /\ pc' = IF r.some THEN "filled" ELSE "rejected"
           /\ bf' = IF r.some
                    THEN BFLoad(to_bf_string(cand.s, cand.c, cand.k, cand.j, cand.h),
                                TapeLen(r.tape), 1 + Len(cand.s))
                    ELSE bf
    /\ UNCHANGED <<solverVars, limit, cruncherCfg, init_len, todo, cand,
                   solution1, printed, calls, call>>

FillSpec == FillInit /\ [][FillTape \/ BFStep]_vars

\* C2: when fill_tape returns (pntr, tape), running the rendered candidate
\* from cell 1 + |s| of a zeroed tape halts on cell pntr with every cell equal
\* to the returned tape, also when j1 is even.
C2_FillMatchesRun ==
    (pc = "filled" /\ bf.status \in {"halt", "fault"}) =>
        (bf.status = "halt" /\ bf.dp = filled.pntr /\ bf.cells = filled.tape)

----------------------------------------------------------------------------
(* main.rs:15-31, cruncher.rs:53-266: a run of the cruncher.  main calls    *)
(* crunch(len) for len = min_init .. max_init; crunch hands every candidate *)
(* to fill_tape and the accepted ones to try_solve; try_solve runs the      *)
(* solver on the tape and on its mirror and reports what it finds.  With    *)
(* --full-program the printed program is given to the machine.              *)

i32_MAX == 2147483647

SweepCap == 11        \* an open-ended sweep is followed up to this len

None == [some |-> FALSE, value |-> 0]
Some(v) == [some |-> TRUE, value |-> v]

\* the command lines of the runs; text is the sequence of the code points of
\* the text argument, none of them a backslash
WorkRuns ==
    {[text |-> t, limit |-> Some(21), rolling_limit |-> r,
      min_init |-> 13, max_init |-> Some(14), min_tape |-> 1, max_tape |-> 12,
      max_node_cost |-> 20, min_slen |-> 1, max_slen |-> i32_MAX,
      min_clen |-> 1, max_clen |-> i32_MAX,
      unique_cells |-> FALSE, full_program |-> TRUE] :
        t \in {<<255>>, <<1>>}, r \in BOOLEAN}
    \cup
    {[text |-> <<127>>, limit |-> None, rolling_limit |-> FALSE,
      min_init |-> 16, max_init |-> Some(16), min_tape |-> 1, max_tape |-> 10,
      max_node_cost |-> 20, min_slen |-> 2, max_slen |-> 2,
      min_clen |-> 4, max_clen |-> 4,
      unique_cells |-> FALSE, full_program |-> f] : f \in BOOLEAN}

\* sweeps that find no candidate (min_slen > len - 12): open-ended, empty
\* (min_init > max_init) and finite; texts with and without a code point
\* above 0xFF
SweepRuns ==
    {[text |-> t, limit |-> l, rolling_limit |-> r,
      min_init |-> 9, max_init |-> m, min_tape |-> 1, max_tape |-> 10,
      max_node_cost |-> 20, min_slen |-> 5, max_slen |-> i32_MAX,
      min_clen |-> 1, max_clen |-> i32_MAX,
      unique_cells |-> FALSE, full_program |-> FALSE] :
        t \in {<<72, 105>>, <<200, 13, 13, 255>>, <<>>, <<256>>, <<72, 8364, 105>>},
        l \in {None, Some(40)}, r \in BOOLEAN, m \in {None, Some(8), Some(10)}}

Runs == WorkRuns \cup SweepRuns

\* util.rs:3-12: a text without a backslash is copied character by character
unescape_regex_like(input) == [k \in 1..Len(input) |-> input[k]]

\* a code point above 0x100 only is refused
IsoRange_OffByOne(ch) == ch <= 256

\* util.rs:75: the code points ISO-8859-1 holds
IsoRange(ch) == ~(ch > 255)

\* util.rs:72-81
RECURSIVE to_iso_loop(_, _, _)
to_iso_loop(input, k, bytes) ==
    IF k > Len(input) THEN [ok |-> TRUE, bytes |-> bytes]
    ELSE IF ~IsoRange(input[k]) THEN [ok |-> FALSE, bytes |-> <<>>]
    ELSE to_iso_loop(input, k + 1, Append(bytes, as_u8(input[k])))
to_iso_8859_1_bytes(input) == to_iso_loop(input, 1, <<>>)

\* Cruncher::new, lines 60-66: the limit when none is given
RECURSIVE goal_diff(_, _, _)
goal_diff(g, k, last) ==
    IF k > Len(g) THEN 0 ELSE abs_diff(g[k], last) + goal_diff(g, k + 1, g[k])

\* the limit without the division by 3
default_limit_Undivided(g) == goal_diff(g, 1, 0) + Len(g) + 20

default_limit(g) == (goal_diff(g, 1, 0) \div 3) + Len(g) + 20

\* main.rs:16: the parsed command line, before Cruncher::new
InitOf(o) ==
        /\ options = o
        /\ goal = <<>> /\ limit = 0 /\ rolling_limit = FALSE
        /\ unique_cells = FALSE /\ max_node_cost = 0
        /\ min_tape = 0 /\ max_tape = 0 /\ print_full_program = FALSE
        /\ tape = <<>> /\ min_cost = 0 /\ pointer = 0 /\ max_pointer = 0
        /\ zeros = <<>> /\ budget = 0 /\ stack = <<>> /\ ret = NoRet
        /\ pc = "new" /\ init_len = 0 /\ todo = <<>> /\ cand = <<>>
        /\ filled = NoFill /\ solution1 = NoPath /\ printed = <<>>
        /\ calls = <<>>
        /\ bf = BFIdle
        /\ call = NoCall

Init == \E o \in Runs : InitOf(o)

\* main.rs:17-24 and cruncher.rs:53-84: Cruncher::new(&opts)?, then the
\* first len of the sweep; an error of new ends main
CruncherNew ==
    /\ pc = "new"
    /\ LET o == options
           decoded == unescape_regex_like(o.text)
           g == to_iso_8859_1_bytes(decoded)
       IN  IF ~g.ok
           THEN /\ pc' = "error"
                /\ UNCHANGED <<goal, limit, rolling_limit, unique_cells, max_node_cost,
                               min_tape, max_tape, print_full_program, init_len>>
           ELSE /\ goal' = g.bytes
                /\ limit' = IF o.limit.some THEN o.limit.value ELSE default_limit(g.bytes)
                /\ rolling_limit' = IF o.limit.some THEN o.rolling_limit ELSE TRUE
                /\ unique_cells' = o.unique_cells
                /\ max_node_cost' = o.max_node_cost
                /\ min_tape' = o.min_tape /\ max_tape' = o.max_tape
                /\ print_full_program' = o.full_program
                /\ init_len' = o.min_init
                /\ pc' = "main"
    /\ UNCHANGED <<tape, min_cost, pointer, max_pointer, zeros, budget, stack, ret,
                   options, todo, cand, filled, solution1, printed, calls, bf, call>>

\* try_solve, lines 172-180 and 199-207: Solver::new on a clone of the tape,
\* then solve(limit - len)
SolverNew(t, ptr, maxp, max_cost) ==
    /\ tape' = t
    /\ min_cost' = solver_min_cost(goal)
    /\ pointer' = ptr
    /\ max_pointer' = maxp
    /\ zeros' = recompute_zeros(t, maxp)
    /\ budget' = max_cost
    /\ stack' = <<NewFrame(0, 0, ptr, max_cost - solver_min_cost(goal), t,
                           recompute_zeros(t, maxp))>>
    /\ ret' = NoRet
    /\ UNCHANGED <<goal, max_node_cost, unique_cells>>

\* lines 229-266
report_solution(len, pntr, s, c, k, j, h, t, nodes) ==
    LET init_segment == to_bf_string(s, c, k, j, h)
        tail_segment == build_output_sequence(nodes, goal, t, pntr)
        full_program == init_segment \o tail_segment
    IN  [program_len |-> Len(full_program),
         full_program |-> full_program,
         line |-> IF print_full_program
                  THEN [total |-> Len(full_program), text |-> full_program]
                  ELSE [total |-> PathCost(nodes) + len, text |-> init_segment]]

\* the printed program on a zeroed tape, the data pointer on cell 1 + |s|
RunPrinted(rep) ==
    IF print_full_program
    THEN BFLoad(rep.full_program, TapeLen(filled.tape), 1 + Len(cand.s))
    ELSE bf

max_pntr_of(c, pntr) == pntr + Len(c) + 1

\* the for loop over min_init..=max_init runs its body once more
SweepContinues_OneMore(len) ==
    ~options.max_init.some \/ len <= options.max_init.value + 1

\* main.rs:19-20 and 25-26: the sweep goes on
SweepContinues(len) ==
    ~options.max_init.some \/ len <= options.max_init.value

\* main.rs:19-29 and cruncher.rs:92-98: the next call of crunch, or Ok(())
Crunch ==
    /\ pc = "main"
    /\ options.max_init.some \/ init_len <= SweepCap
    /\ IF SweepContinues(init_len)
       THEN /\ todo' = crunch_candidates(init_len)
            /\ calls' = Append(calls, init_len)
            /\ pc' = "loop"
       ELSE /\ UNCHANGED <<todo, calls>>
            /\ pc' = "exit"
    /\ cand' = <<>>
    /\ UNCHANGED <<solverVars, limit, cruncherCfg, init_len, filled, solution1,
                   printed, bf, call>>

\* cruncher.rs:131-145 and 172-180: the next candidate of the loops,
\* fill_tape, the tape-span test and the first solve
NextCandidate ==
    /\ pc = "loop" /\ bf.status # "run"
    /\ IF todo = <<>>
       THEN /\ init_len' = init_len + 1
            /\ pc' = "main"
            /\ cand' = <<>>
            /\ UNCHANGED <<solverVars, todo, filled, solution1>>
       ELSE LET t == Head(todo)
                r == fill_tape(t.s, t.c, t.k[1], t.k[2], t.j[1], t.j[2], t.h)
                max_pntr == max_pntr_of(t.c, r.pntr)
            IN  /\ cand' = t
                /\ todo' = Tail(todo)
                /\ filled' = r
                /\ solution1' = NoPath
                /\ init_len' = init_len
                /\ IF r.some /\ r.pntr > 0 /\ max_pntr >= min_tape
                      /\ max_pntr <= max_tape
                   THEN /\ SolverNew(r.tape, r.pntr, max_pntr, limit - init_len)
                        /\ pc' = "solve1"
                   ELSE /\ UNCHANGED solverVars
                        /\ pc' = "loop"
    /\ UNCHANGED <<limit, cruncherCfg, printed, calls, bf, call>>

\* lines 180-188: the first solve has returned; its path is reported and,
\* with the rolling limit, limit becomes the length report_solution returns
Report1 ==
    /\ pc = "solve1" /\ SolverDone
    /\ solution1' = [some |-> ret.some, nodes |-> ret.nodes]
    /\ IF ret.some
       THEN LET rep == report_solution(init_len, filled.pntr, cand.s, cand.c,
                                       cand.k, cand.j, cand.h, filled.tape, ret.nodes)
            IN  /\ printed' = rep.line
                /\ limit' = IF rolling_limit THEN rep.program_len ELSE limit
                /\ bf' = RunPrinted(rep)
       ELSE UNCHANGED <<printed, limit, bf>>
    /\ pc' = "mirror"
    /\ UNCHANGED <<solverVars, cruncherCfg, init_len, todo, cand, filled, calls, call>>

\* lines 192-197: the cells right of pntr are negated in try_solve's tape
mirror_tape(t, pntr, c) ==
    [i \in DOMAIN t |->
        IF i > pntr /\ i <= pntr + Len(c) THEN negate_byte(t[i]) ELSE t[i]]

\* lines 190-207: the second solve, on the mirrored tape
Mirror ==
    /\ pc = "mirror" /\ bf.status # "run"
    /\ IF Len(cand.c) > 1
       THEN LET t2 == mirror_tape(filled.tape, filled.pntr, cand.c)
            IN  /\ filled' = [filled EXCEPT !.tape = t2]
                /\ SolverNew(t2, filled.pntr, max_pntr_of(cand.c, filled.pntr),
                             limit - init_len)
                /\ pc' = "solve2"
       ELSE /\ pc' = "loop"
            /\ UNCHANGED <<solverVars, filled>>
    /\ UNCHANGED <<limit, cruncherCfg, init_len, todo, cand, solution1, printed,
                   calls, bf, call>>

neg_seq(v) == [i \in 1..Len(v) |-> -v[i]]

\* the mirrored path is reported when it is not dearer
better_OrEqual(sol1, path2) ==
    ~sol1.some \/ PathCost(path2) <= PathCost(sol1.nodes)

\* lines 208-212: the mirrored path against the first one
better(sol1, path2) ==
    ~sol1.some \/ PathCost(path2) < PathCost(sol1.nodes)

\* lines 207-223: the second solve has returned; a cheaper path is reported
\* with s, k, j0 and h negated
Report2 ==
    /\ pc = "solve2" /\ SolverDone
    /\ IF ret.some /\ better(solution1, ret.nodes)
       THEN LET rep == report_solution(init_len, filled.pntr, neg_seq(cand.s), cand.c,
                                       <<-cand.k[1], -cand.k[2]>>,
                                       <<-cand.j[1], cand.j[2]>>, -cand.h,
                                       filled.tape, ret.nodes)
            IN  /\ printed' = rep.line
                /\ limit' = IF rolling_limit THEN rep.program_len ELSE limit
                /\ bf' = RunPrinted(rep)
       ELSE UNCHANGED <<printed, limit, bf>>
    /\ pc' = "loop"
    /\ UNCHANGED <<solverVars, cruncherCfg, init_len, todo, cand, filled, solution1,
                   calls, call>>

Next ==
    \/ CruncherNew
    \/ Crunch \/ NextCandidate \/ Report1 \/ Mirror \/ Report2
    \/ SolverStep
    \/ BFStep

Spec == Init /\ [][Next]_vars

\* main on the command lines whose sweeps find no candidate; main is one
\* thread that runs to completion: a step that can be taken is taken
SweepInit == \E o \in SweepRuns : InitOf(o)
SweepNext == CruncherNew \/ Crunch \/ NextCandidate
SweepSpec == SweepInit /\ [][SweepNext]_vars /\ WF_vars(SweepNext)

----------------------------------------------------------------------------
(* Properties of a run of the cruncher, checked under Spec                  *)

\* C1: every program printed with --full-program, by the direct report and by
\* the mirrored one, halts on the 8-bit machine and outputs exactly the goal.
C1_RoundTrip ==
    (print_full_program /\ bf.status \in {"halt", "fault"}) =>
        (bf.status = "halt" /\ bf.out = goal)

\* C6: with the rolling limit on, no assignment to limit stores a value
\* greater than the one it replaces.
C6_LimitNeverIncreases ==
    [][rolling_limit => limit' <= limit]_vars

ShortestUseful == <<"+", "[", "[", "<", "+", ">", "-", ">", "+", "+", "<", "]", ">", "]">>
Rendered(t) == to_bf_string(t.s, t.c, t.k, t.j, t.h)

\* C8: every candidate crunch(L) hands to fill_tape renders to exactly L
\* characters, and +[[<+>->++<]>] is among the candidates of crunch(14).
C8_RenderedLength ==
    /\ cand # <<>> => Len(Rendered(cand)) = init_len
    /\ (pc = "loop" /\ cand = <<>> /\ init_len = 14) =>
           \E n \in 1..Len(todo) : Rendered(todo[n]) = ShortestUseful

\* the len arguments of the calls so far are min_init, min_init + 1, ...
SweepPrefix ==
    \A k \in 1..Len(calls) : calls[k] = options.min_init + k - 1

\* C18: with max_init set, main calls crunch exactly once for each
\* L = min_init .. max_init in ascending order (not at all when
\* min_init > max_init) and then returns Ok; with max_init unset it calls
\* crunch for min_init, min_init + 1, ... and never returns.
C18_Sweep ==
    /\ [](/\ SweepPrefix
          /\ options.max_init.some =>
                \A k \in 1..Len(calls) : calls[k] <= options.max_init.value
          /\ pc = "exit" =>
                /\ options.max_init.some
                /\ Len(calls) = Max(0, options.max_init.value - options.min_init + 1))
    /\ (pc = "main" /\ options.max_init.some) ~> (pc = "exit")
    /\ (pc = "main" /\ ~options.max_init.some) ~> (init_len > SweepCap)
C18_Witness ==
    pc = "exit" /\ calls = <<9, 10>>

\* the sum over i of |g[i] - g[i-1]|, with 0 before the first byte
RECURSIVE SumAbsDiff(_, _)
SumAbsDiff(g, n) ==
    IF n = 0 THEN 0
    ELSE SumAbsDiff(g, n - 1) + Abs(g[n] - (IF n = 1 THEN 0 ELSE g[n - 1]))

\* C19: without a limit argument Cruncher::new sets
\* limit = (sum of |goal[i] - goal[i-1]|) / 3 + |goal| + 20 and turns rolling
\* mode on whatever the flag; with a limit argument limit is that value and
\* rolling mode is the flag.
C19_InitialLimit ==
    (pc = "main" /\ calls = <<>>) =>
        IF options.limit.some
        THEN limit = options.limit.value /\ rolling_limit = options.rolling_limit
        ELSE /\ limit = (SumAbsDiff(goal, Len(goal)) \div 3) + Len(goal) + 20
             /\ rolling_limit
C19_Witness ==
    /\ pc = "main" /\ calls = <<>> /\ ~options.limit.some
    /\ ~options.rolling_limit /\ Len(goal) >= 3 /\ limit = 233

\* C20: to_iso_8859_1_bytes fails exactly when the text holds a code point
\* above 0xFF, and else returns one byte per character, equal to its code
\* point (U+00FF accepted, U+0100 refused); Cruncher::new hands the error on
\* and no Cruncher exists.
C20_Iso8859 ==
    pc # "new" =>
        /\ pc = "error" <=> \E k \in 1..Len(options.text) : options.text[k] > 255
        /\ pc # "error" =>
              /\ Len(goal) = Len(options.text)
              /\ \A k \in 1..Len(goal) : goal[k] = options.text[k]
        /\ pc = "error" => (goal = <<>> /\ limit = 0 /\ calls = <<>>)
C20_Witness ==
    pc = "error" /\ options.text = <<256>>

----------------------------------------------------------------------------
(* The helper functions on their own: s_list_gen and c_list_gen             *)
(* (cruncher.rs:471-515), a lookup in MODINV256 (cruncher.rs:307-311) and   *)
(* lower_bound (math.rs:5-25), whose loop is run one iteration at a step.   *)

MaxGenLen == 5        \* largest len given to s_list_gen / c_list_gen
MaxSlice == 3         \* longest slice given to lower_bound
MaxVal == 3           \* largest element of a slice

\* the ascending slices: what the solver's zero cache can hold, and slices
\* with repeated elements
SortedSlices ==
    {sl \in UNION {[1..n -> 0..MaxVal] : n \in 0..MaxSlice} :
        \A a \in 1..(Len(sl) - 1) : sl[a] <= sl[a + 1]}

HelperCalls ==
    {[fn |-> f, args |-> <<len>>, loop |-> <<>>, done |-> FALSE, out |-> <<>>] :
        f \in {"s_list_gen", "c_list_gen"}, len \in 1..MaxGenLen}
    \cup
    {[fn |-> "MODINV256", args |-> <<q>>, loop |-> <<>>, done |-> FALSE, out |-> <<>>] :
        q \in 0..(Len(MODINV256) - 1)}
    \cup
    {[fn |-> "lower_bound", args |-> <<sl, v>>, loop |-> <<>>, done |-> FALSE,
      out |-> <<>>] : sl \in SortedSlices, v \in -1..(MaxVal + 1)}

HelperInit ==
    /\ SolverIdle
    /\ limit = 0 /\ rolling_limit = FALSE /\ print_full_program = FALSE
    /\ min_tape = 0 /\ max_tape = 0 /\ options = <<>>
    /\ pc = "helper" /\ init_len = 0 /\ todo = <<>> /\ cand = <<>>
    /\ filled = NoFill /\ solution1 = NoPath /\ printed = <<>>
    /\ calls = <<>>
    /\ bf = BFIdle
    /\ call \in HelperCalls

HelperFrame == UNCHANGED <<solverVars, cruncherVars, bf>>

\* cruncher.rs:471-491
SListGen ==
    /\ call.fn = "s_list_gen" /\ ~call.done
    /\ call' = [call EXCEPT !.done = TRUE, !.out = s_list_gen(call.args[1])]
    /\ HelperFrame

\* cruncher.rs:494-515
CListGen ==
    /\ call.fn = "c_list_gen" /\ ~call.done
    /\ call' = [call EXCEPT !.done = TRUE, !.out = c_list_gen(call.args[1])]
    /\ HelperFrame

\* cruncher.rs:307-311: MODINV256[inv_idx]
ModInvLookup ==
    /\ call.fn = "MODINV256" /\ ~call.done
    /\ call' = [call EXCEPT !.done = TRUE, !.out = MODINV256[call.args[1] + 1]]
    /\ HelperFrame

\* the comparison of upper_bound
lower_bound_iter_NotGreater(slice, value, start, end, mid) ==
    IF slice[mid + 1] <= value
    THEN <<mid, end, (mid + end + 1) \div 2>>
    ELSE <<start, mid, (start + mid) \div 2>>

\* math.rs:14-22: one iteration of the loop, on (start, end, mid)
lower_bound_iter(slice, value, start, end, mid) ==
    IF slice[mid + 1] < value
    THEN <<mid, end, (mid + end + 1) \div 2>>
    ELSE <<start, mid, (start + mid) \div 2>>

\* math.rs:6-12: the empty slice, and the locals before the loop
LowerBoundEnter ==
    /\ call.fn = "lower_bound" /\ ~call.done /\ call.loop = <<>>
    /\ LET slice == call.args[1] IN
       IF Len(slice) = 0
       THEN call' = [call EXCEPT !.done = TRUE, !.out = 0]
       ELSE call' = [call EXCEPT !.loop = <<0, Len(slice), Len(slice) \div 2>>]
    /\ HelperFrame

\* math.rs:14-24: while mid != end, and the return of mid
LowerBoundIter ==
    /\ call.fn = "lower_bound" /\ ~call.done /\ call.loop # <<>>
    /\ LET start == call.loop[1]
           end == call.loop[2]
           mid == call.loop[3]
       IN  IF mid # end
           THEN call' = [call EXCEPT !.loop =
                           lower_bound_iter(call.args[1], call.args[2], start, end, mid)]
           ELSE call' = [call EXCEPT !.done = TRUE, !.out = mid]
    /\ HelperFrame

HelperNext == SListGen \/ CListGen \/ ModInvLookup \/ LowerBoundEnter \/ LowerBoundIter

\* a call runs to its end: a step that can be taken is taken
HelperSpec == HelperInit /\ [][HelperNext]_vars /\ WF_vars(HelperNext)

----------------------------------------------------------------------------
(* Properties of the helper functions, checked under HelperSpec             *)

\* the sum of |v[i]| + first for i = 1 and |v[i]| + later for i > 1
RECURSIVE ListCost(_, _, _)
ListCost(v, first, later) ==
    IF v = <<>> THEN 0
    ELSE Abs(v[1]) + first + ListCost(Tail(v), later, later)

Emitted(f) == call.fn = f /\ call.done

\* C13: for every len >= 1, every sequence s_list_gen(len) emits has
\* sum of (|v| + 1) = len and a nonzero first element.
C13_SListCost ==
    Emitted("s_list_gen") =>
        \A k \in 1..Len(call.out) :
            /\ ListCost(call.out[k], 1, 1) = call.args[1]
            /\ call.out[k] # <<>> /\ call.out[k][1] # 0

\* C14: for every len >= 1, every sequence c_list_gen(len) emits has
\* sum of (|v| + c_i) = len, c_i = 1 for the first element and 2 for the rest.
C14_CListCost ==
    Emitted("c_list_gen") =>
        \A k \in 1..Len(call.out) : ListCost(call.out[k], 1, 2) = call.args[1]
C14_Witness ==
    /\ Emitted("c_list_gen") /\ call.args[1] = 5
    /\ \E k \in 1..Len(call.out) : call.out[k] = <<1, -1>>

\* C15: for every odd q in 1, 3, ..., 39, (q * MODINV256[q]) mod 256 = 1.
C15_ModInverse ==
    (Emitted("MODINV256") /\ call.args[1] % 2 = 1 /\ call.args[1] <= 39) =>
        (call.args[1] * call.out) % 256 = 1
C15_Witness ==
    Emitted("MODINV256") /\ call.args[1] = 39 /\ call.out = 151

\* the least index (from 0) of an element >= value, the length when none is
FirstNotLess(slice, value) ==
    IF \E a \in 1..Len(slice) : slice[a] >= value
    THEN (CHOOSE a \in 1..Len(slice) :
            /\ slice[a] >= value
            /\ \A b \in 1..(a - 1) : slice[b] < value) - 1
    ELSE Len(slice)

\* C16: on every ascending slice and every value lower_bound returns the
\* least index i with slice[i] >= value, the length of the slice when every
\* element is smaller, 0 on the empty slice, and its loop ends.
C16_LowerBound ==
    /\ [](Emitted("lower_bound") =>
            /\ call.out = FirstNotLess(call.args[1], call.args[2])
            /\ call.out = lower_bound(call.args[1], call.args[2])
            /\ call.args[1] = <<>> => call.out = 0
            /\ (\A a \in 1..Len(call.args[1]) : call.args[1][a] < call.args[2])
                  => call.out = Len(call.args[1]))
    /\ (call.fn = "lower_bound") ~> call.done
C16_Witness ==
    /\ Emitted("lower_bound") /\ call.args[1] = <<0, 2, 2>> /\ call.args[2] = 2
    /\ call.out = 1

----------------------------------------------------------------------------
(* Properties of try_solve's mirror and of fill_tape                        *)

\* fill_tape on the parameters the mirrored report prints
mirrored_fill(t) ==
    fill_tape(neg_seq(t.s), t.c, -t.k[1], -t.k[2], -t.j[1], t.j[2], -t.h)

\* C21: when fill_tape returns (pntr, tape) and |c| > 1, fill_tape on the
\* mirrored parameters (s, k0, k1, j0, h negated, j1 and c kept) returns the
\* same pntr and the tape of the second solve: cells pntr+1 .. pntr+|c|
\* negated, every other cell unchanged.
C21_MirrorFill ==
    (pc = "filled" /\ Len(cand.c) > 1) =>
        mirrored_fill(cand) =
            SomeFill(filled.pntr, mirror_tape(filled.tape, filled.pntr, cand.c))
\* C22: when both solves of try_solve return a path, a mirrored path that is
\* not strictly cheaper than the first leaves the printed line, the executed
\* program and limit as they are; and a candidate with |c| <= 1 goes back to
\* the loops without a second solve.
C22_StrictMirror ==
    [][/\ (pc = "solve2" /\ pc' = "loop" /\ solution1.some /\ ret.some
           /\ PathCost(ret.nodes) >= PathCost(solution1.nodes))
          => (printed' = printed /\ limit' = limit /\ bf' = bf)
       /\ (pc = "mirror" /\ pc' # "mirror" /\ Len(cand.c) <= 1)
          => (pc' = "loop" /\ UNCHANGED <<solverVars, filled>>)
       /\ (pc' = "solve2") => Len(cand'.c) > 1]_vars

\* the mirrored solve has returned a path that costs as much as the first
C22_Witness ==
    /\ pc = "solve2" /\ SolverDone
    /\ solution1.some /\ ret.some
    /\ PathCost(ret.nodes) = PathCost(solution1.nodes)
\* C23: after construction limit changes only in try_solve, with the rolling
\* limit on and in the step that reports a path, and the value stored is the
\* cost of that path plus the length L of the crunch call; every other step,
\* and every step without the rolling limit, leaves limit as it is.
C23_LimitUpdate ==
    [][pc # "new" =>
          IF /\ rolling_limit /\ ret.some
             /\ \/ pc = "solve1" /\ pc' = "mirror"
                \/ pc = "solve2" /\ pc' = "loop" /\ better(solution1, ret.nodes)
          THEN limit' = PathCost(ret.nodes) + init_len
          ELSE limit' = limit]_vars
\* the odd part of a positive j1
odd_part(j1) == j1 \div Pow2(trailing_zeros(j1))

\* C24: a pair fill_tape returns has tape[pntr] = 0 and
\* 2 <= pntr < max_tape - |c|, hence pntr + |c| + 1 <= max_tape; a tuple with
\* j1 = 0, with the odd part of j1 above 39, or whose first residue s[0] + k0
\* is not divisible by the power-of-two part of j1, is rejected.
C24_FillReturn ==
    /\ pc = "filled" =>
          /\ filled.some
          /\ filled.tape[filled.pntr] = 0
          /\ 2 <= filled.pntr /\ filled.pntr < max_tape - Len(cand.c)
          /\ filled.pntr + Len(cand.c) + 1 <= max_tape
          /\ filled.pntr + Len(cand.c) < TapeLen(filled.tape)
    /\ (pc \in {"filled", "rejected"} /\ cand.j[2] = 0) => pc = "rejected"
    /\ (pc \in {"filled", "rejected"} /\ cand.j[2] > 0 /\ odd_part(cand.j[2]) > 39)
          => pc = "rejected"
    /\ (pc \in {"filled", "rejected"} /\ cand.j[2] > 0
        /\ as_u8(cand.s[1] + cand.k[1]) % Pow2(trailing_zeros(cand.j[2])) # 0)
          => pc = "rejected"
    /\ pc = "rejected" => filled = NoFill

\* a pair returned after the loop has moved over two cells, with |c| = 2
C24_Witness ==
    /\ pc = "filled" /\ filled.pntr = 4 /\ Len(cand.c) = 2
    /\ filled.tape[3] # 0
----------------------------------------------------------------------------
(* Termination of Solver::solve                                             *)

\* one call of solve with the larger budget, without --unique-cells, from
\* either end of the window and from inside it
TermInit ==
    /\ \E g \in Goals, t \in Tapes, ptr \in {0, 2, MaxCell} :
          SolverStart(g, ToTape(t), ptr, MaxCell, NodeCostCap, FALSE, MaxBudget)
    /\ CruncherIdle
    /\ call = NoCall

\* solve is one thread that runs to completion: a step that can be taken is
\* taken
TermSpec == TermInit /\ [][SolverStep]_vars /\ WF_vars(SolverStep)

\* every frame starts at most at |goal|, and a child frame starts one byte
\* after its parent, or a whole roll block of at least 4 bytes after it
StartsIncrease ==
    \A k \in 1..Len(stack) :
        /\ stack[k].start <= Len(goal)
        /\ k > 1 => LET d == stack[k].start - stack[k - 1].start
                    IN  d = 1 \/ (d >= 4 /\ d = stack[k - 1].run_len)

\* C25: every call of solve terminates; each recursive call of exhaustive is
\* made with a strictly larger start (start + 1, or start + run_len with
\* run_len >= 4 for a roll block) that never exceeds |goal|.
C25_Terminates ==
    []StartsIncrease /\ <>SolverDone

\* solve has returned after a roll block was taken four frames deep
C25_Witness ==
    /\ SolverDone /\ ret.some /\ Len(ret.nodes) >= 5
    /\ HasRoll(ret.nodes)
----------------------------------------------------------------------------
(* The tape cells a step of exhaustive indexes                              *)

\* lines 206-213: the cells the zero scan of zip-left looks at
RECURSIVE zip_left_probes(_, _)
zip_left_probes(f, pj) ==
    IF pj <= f.pointer
    THEN {f.pointer - pj} \cup
         (IF f.pointer - pj \in DOMAIN tape /\ tape[f.pointer - pj] = 0
          THEN zip_left_probes(f, pj + 1) ELSE {})
    ELSE {}

\* lines 406-413: the cells the zero scan of zip-right looks at
RECURSIVE zip_right_probes(_, _)
zip_right_probes(f, nj) ==
    IF f.pointer + nj <= max_pointer
    THEN {f.pointer + nj} \cup
         (IF f.pointer + nj \in DOMAIN tape /\ tape[f.pointer + nj] = 0
          THEN zip_right_probes(f, nj + 1) ELSE {})
    ELSE {}

\* lines 319-327: the cells tape[pointer - pj + 1] the extension looks at
RECURSIVE roll_left_probes(_, _, _)
roll_left_probes(f, pj, run_len) ==
    IF pj < 1 /\ LeftRunInWindow(f, pj)
    THEN {f.pointer - pj + 1} \cup
         (IF f.pointer - pj + 1 \in DOMAIN tape /\ tape[f.pointer - pj + 1] # 0
             /\ run_len < Len(goal) - f.start
          THEN roll_left_probes(f, pj - 1, run_len + 1) ELSE {})
    ELSE {}

\* lines 515-523: the cells tape[pointer + nj - 1] the extension looks at
RECURSIVE roll_right_probes(_, _, _)
roll_right_probes(f, nj, run_len) ==
    IF nj < 1 /\ f.pointer + nj > 0
    THEN {f.pointer + nj - 1} \cup
         (IF f.pointer + nj - 1 \in DOMAIN tape /\ tape[f.pointer + nj - 1] # 0
             /\ run_len < Len(goal) - f.start
          THEN roll_right_probes(f, nj - 1, run_len + 1) ELSE {})
    ELSE {}

BlockCells(nodes) == {nodes[k].pointer : k \in 1..Len(nodes)}

\* the cells of the tape the step of the top frame reads or writes
Touched ==
    LET f == Top
        i == f.i
        zip_i == i < i_max(f) /\ ~(i >= i_max(f) - 3)
        rolls == f.run_len >= 4 /\ f.run_len <= Len(goal) - f.start
    IN  IF f.wait
        THEN IF f.phase \in {"rolll", "rollr"} THEN BlockCells(f.block)
             ELSE {f.node.pointer}
        ELSE CASE f.phase = "stay" -> IF f.pointer >= 0 THEN {f.pointer} ELSE {}
               [] f.phase = "left" ->
                    IF f.pointer > 0 /\ i < i_max(f) /\ LeftInRange(f, i)
                    THEN {f.pointer - i} ELSE {}
               [] f.phase = "right" ->
                    IF f.pointer < max_pointer /\ i < i_max(f) /\ RightInRange(f, i)
                    THEN {f.pointer + i} ELSE {}
               [] f.phase = "zipl" ->
                    IF f.pointer > 0 THEN zip_left_probes(f, 0) ELSE {}
               [] f.phase = "zll" ->
                    IF zip_i /\ ~(i > f.zero) /\ ~(f.zero - i < 0)
                    THEN {f.zero - i} ELSE {}
               [] f.phase = "zlr" ->
                    IF zip_i /\ ~(i > (f.pointer - f.zero - 3) \div 2)
                       /\ ~(f.zero + i > max_pointer)
                    THEN {f.zero + i} ELSE {}
               [] f.phase = "rlx" ->
                    roll_left_probes(f, f.pj, f.pointer - f.pj - f.zero)
               [] f.phase = "rolll" ->
                    IF rolls
                    THEN {f.pointer - f.pj} \cup
                         (IF f.pointer - f.pj \in DOMAIN tape
                             /\ roll_ncost(f, f.pointer - f.pj) <= i_max(f)
                          THEN BlockCells(roll_left_block(f).nodes) ELSE {})
                    ELSE {}
               [] f.phase = "zipr" ->
                    IF f.pointer <= max_pointer THEN zip_right_probes(f, 0) ELSE {}
               [] f.phase = "zrr" ->
                    IF zip_i /\ ~(f.zero + i > max_pointer)
                    THEN {f.zero + i} ELSE {}
               [] f.phase = "zrl" ->
                    IF zip_i /\ ~(i > (f.zero - f.pointer - 3) \div 2)
                       /\ ~(f.zero - i < 0)
                    THEN {f.zero - i} ELSE {}
               [] f.phase = "rrx" ->
                    roll_right_probes(f, f.pj, f.zero - f.pointer - f.pj)
               [] f.phase = "rollr" ->
                    IF rolls
                    THEN {f.pointer + f.pj} \cup
                         (IF f.pointer + f.pj \in DOMAIN tape
                             /\ roll_ncost(f, f.pointer + f.pj) <= i_max(f)
                          THEN BlockCells(roll_right_block(f).nodes) ELSE {})
                    ELSE {}
               [] OTHER -> {}

\* C26: during solve, on a solver built with 0 <= pointer <= max_pointer <
\* |tape|, every tape cell a step reads or writes has its index in
\* 0 .. max_pointer, the probes of the zero scans and of the roll extensions
\* included, and the cells above max_pointer keep the bytes they started with.
C26_WindowOnly ==
    Running =>
        /\ Touched \subseteq 0..max_pointer
        /\ \A c \in DOMAIN tape :
              c > max_pointer => tape[c] = stack[1].tape_in[c]

\* the roll-left extension has looked at the last cell of the window
C26_Witness ==
    /\ Running /\ Top.phase = "rlx" /\ ~Top.wait
    /\ max_pointer \in Touched
    /\ tape[max_pointer] # 0
----------------------------------------------------------------------------
(* The best path of a frame                                                 *)

\* C27: the best path of a frame, once set, is replaced only by a path whose
\* total cost is strictly smaller; a candidate of equal cost, coming later in
\* the visit order of the classes, leaves it as it is.
C27_TiesKeepFirst ==
    [][\A d \in 1..Len(stack) :
          (d <= Len(stack') /\ stack[d].min_path.some
           /\ stack'[d].min_path # stack[d].min_path)
          => /\ stack'[d].min_path.some
             /\ PathCost(stack'[d].min_path.nodes) < PathCost(stack[d].min_path.nodes)
      ]_vars

\* a single move comes back with a subpath that makes the total equal to the
\* cost of the best path the frame holds
C27_Witness ==
    /\ Running /\ Top.wait /\ ret.valid /\ ret.some
    /\ Top.phase \notin {"rolll", "rollr"}
    /\ Top.min_path.some
    /\ PathCost(ret.nodes) + Top.node.cost = PathCost(Top.min_path.nodes)
    /\ ~unique_cells
----------------------------------------------------------------------------
(* The child frame of a roll block                                          *)

\* the sum of next_cost over the positions start .. start + n - 1
RECURSIVE BlockCredit(_, _)
BlockCredit(start, n) ==
    IF n = 0 THEN 0 ELSE next_cost(start + n - 1) + BlockCredit(start, n - 1)

\* C28: the child frame of a roll block of run_len nodes taken at start is
\* called with start + run_len and with the budget max_cost plus the sum of
\* next_cost(start + i) over i in [0, run_len), the budget run_len single
\* moves would have handed down.
C28_RollCredit ==
    \A d \in 1..(Len(stack) - 1) :
        stack[d].phase \in {"rolll", "rollr"} =>
            /\ stack[d].wait
            /\ Len(stack[d].block) = stack[d].run_len
            /\ stack[d + 1].start = stack[d].start + stack[d].run_len
            /\ stack[d + 1].max_cost =
                  stack[d].max_cost + BlockCredit(stack[d].start, stack[d].run_len)

\* the child of a roll-left block of four nodes is running, with goal bytes
\* left to emit
C28_Witness ==
    /\ Len(stack) >= 2
    /\ stack[Len(stack) - 1].phase = "rolll"
    /\ stack[Len(stack) - 1].run_len = 4
    /\ Top.start < Len(goal)
    /\ BlockCredit(stack[Len(stack) - 1].start, 4) > 0
----------------------------------------------------------------------------
(* The landing cells of zip and roll                                        *)

\* C29: the cell a frame takes as the landing point of a zip holds 0 in the
\* current tape and is the nearest such cell: no cell strictly between it and
\* pointer - pj (zip-left), or pointer + nj (zip-right), holds 0.
C29_ZipLandsOnZero ==
    (Running /\ ~Top.wait) =>
        /\ Top.phase \in {"zll", "zlr"} =>
              /\ tape[Top.zero] = 0
              /\ \A c \in (Top.zero + 1)..(Top.pointer - Top.pj - 1) : tape[c] # 0
        /\ Top.phase \in {"zrr", "zrl"} =>
              /\ tape[Top.zero] = 0
              /\ \A c \in (Top.pointer + Top.pj + 1)..(Top.zero - 1) : tape[c] # 0
\* the block a frame waits on, as one loop [.<] (dir = -1) or [.>] (dir = 1)
\* run on the child's tape t
RollExecutable(f, t, dir) ==
    /\ Len(f.block) >= 4 /\ Len(f.block) <= Len(goal) - f.start
    /\ \A k \in 1..(Len(f.block) - 1) :
          f.block[k + 1].pointer = f.block[k].pointer + dir
    /\ \A k \in 1..Len(f.block) : t[f.block[k].pointer] # 0
    /\ f.zero = f.block[Len(f.block)].pointer + dir
    /\ t[f.zero] = 0

\* C30: every roll block a frame takes has at least 4 and at most
\* |goal| - start nodes on consecutive cells, going left for [.<] and right
\* for [.>]; once the goal bytes are written every cell of the block is
\* nonzero, and the cell right after the last node, where the child frame
\* starts, holds 0.
C30_RollExecutable ==
    \A d \in 1..(Len(stack) - 1) :
        /\ stack[d].phase = "rolll" =>
              RollExecutable(stack[d], stack[d + 1].tape_in, -1)
        /\ stack[d].phase = "rollr" =>
              RollExecutable(stack[d], stack[d + 1].tape_in, 1)

============================================================================
